---- MODULE Spec2Model ----
(***************************************************************************)
(* Model of the Deployer of terrariums (src/src/deployer.ts): storeCode    *)
(* and instantiate as asynchronous calls that suspend at every `await`,    *)
(* the ledger client they drive, the Block-Inclusion Waiter and the        *)
(* Reference Store they update.                                            *)
(***************************************************************************)
EXTENDS Integers, Sequences, FiniteSets, TLC

(***************************************************************************)
(* Bounds of the model.                                                    *)
(***************************************************************************)
\* Number of storeCode/instantiate calls one behaviour starts.
MaxCalls == 2

CallIds == 1..MaxCalls

(***************************************************************************)
(* JavaScript values, as far as raw logs need them.                        *)
(***************************************************************************)
Undefined == [t |-> "undefined"]

S(s) == [t |-> "string", s |-> s]

Arr(items) == [t |-> "array", items |-> items]

Obj(fields) == [t |-> "object", fields |-> fields]

\* A thrown exception: its class and its message, a sequence of text parts.
Throw(class, message) == [t |-> "throw", class |-> class, message |-> message]

IsThrow(v) == v.t = "throw"

\* v[k] for a property name k.
GetProp(v, k) ==
  IF IsThrow(v) THEN v
  ELSE IF v.t \in {"undefined", "null"}
    THEN Throw("TypeError",
               <<"Cannot read properties of ", v.t, " (reading '", k, "')">>)
  ELSE IF v.t = "object" /\ k \in DOMAIN v.fields THEN v.fields[k]
  ELSE Undefined

\* v[i] for a zero-based index i.
ElemAt(v, i) ==
  IF IsThrow(v) THEN v
  ELSE IF v.t \in {"undefined", "null"}
    THEN Throw("TypeError",
               <<"Cannot read properties of ", v.t, " (reading '0')">>)
  ELSE IF v.t = "array" /\ i + 1 \in DOMAIN v.items THEN v.items[i + 1]
  ELSE Undefined

\* item[k] === s
PropIs(item, k, s) ==
  /\ item.t = "object"
  /\ k \in DOMAIN item.fields
  /\ item.fields[k] = S(s)

\* v.find(item => item[k] === s): the first such item, or undefined.
Find(v, k, s) ==
  IF IsThrow(v) THEN v
  ELSE IF v.t \in {"undefined", "null"}
    THEN Throw("TypeError",
               <<"Cannot read properties of ", v.t, " (reading 'find')">>)
  ELSE IF v.t # "array" THEN Throw("TypeError", <<"find is not a function">>)
  ELSE LET hits == {i \in DOMAIN v.items : PropIs(v.items[i], k, s)}
       IN  IF hits = {} THEN Undefined
           ELSE v.items[CHOOSE i \in hits : \A j \in hits : i <= j]

(***************************************************************************)
(* Raw logs of the ledger: the texts, and what JSON.parse makes of them.   *)
(***************************************************************************)
Attr(k, v) == Obj([key |-> S(k), value |-> S(v)])

Event(type, attrs) == Obj([type |-> S(type), attributes |-> Arr(attrs)])

MsgLog(events) == Arr(<<Obj([events |-> Arr(events)])>>)

\* The text of a transaction that reverted: not JSON.
LogNotJson == "out of gas"

\* A log with no message entry.
LogNoMsgs == "[]"

LogStore42 ==
  "[{\"events\":[{\"type\":\"message\",\"attributes\":[{\"key\":\"code_id\",\"value\":\"1\"}]},{\"type\":\"store_code\",\"attributes\":[{\"key\":\"sender\",\"value\":\"terra1sender\"},{\"key\":\"code_id\",\"value\":\"42\"}]}]}]"

LogStore7 ==
  "[{\"events\":[{\"type\":\"store_code\",\"attributes\":[{\"key\":\"code_id\",\"value\":\"7\"}]}]}]"

\* A store_code event without the code_id attribute.
LogStoreNoId ==
  "[{\"events\":[{\"type\":\"store_code\",\"attributes\":[{\"key\":\"sender\",\"value\":\"terra1sender\"}]}]}]"

LogInstPrimary ==
  "[{\"events\":[{\"type\":\"instantiate_contract\",\"attributes\":[{\"key\":\"_contract_address\",\"value\":\"terra1def\"}]}]}]"

LogInstFallback ==
  "[{\"events\":[{\"type\":\"instantiate\",\"attributes\":[{\"key\":\"_contract_address\",\"value\":\"terra1abc\"}]}]}]"

\* Both candidate events, the fallback one first in the log.
LogInstBoth ==
  "[{\"events\":[{\"type\":\"instantiate\",\"attributes\":[{\"key\":\"_contract_address\",\"value\":\"terra1xyz\"}]},{\"type\":\"instantiate_contract\",\"attributes\":[{\"key\":\"_contract_address\",\"value\":\"terra1def\"}]}]}]"

\* An instantiate event without the _contract_address attribute.
LogInstNoAddr ==
  "[{\"events\":[{\"type\":\"instantiate\",\"attributes\":[{\"key\":\"code_id\",\"value\":\"42\"}]}]}]"

\* The raw logs an included transaction may carry.
RawLogs ==
  {LogNotJson, LogNoMsgs, LogStore42, LogStore7, LogStoreNoId,
   LogInstPrimary, LogInstFallback, LogInstBoth, LogInstNoAddr}

\* JSON.parse(text): the parsed value, or a thrown SyntaxError.
JSONparse(text) ==
  CASE text = "" ->
         Throw("SyntaxError", <<"Unexpected end of JSON input">>)
    [] text = LogNotJson ->
         Throw("SyntaxError", <<"Unexpected token o in JSON at position 0">>)
    [] text = LogNoMsgs -> Arr(<<>>)
    [] text = LogStore42 ->
         MsgLog(<<Event("message", <<Attr("code_id", "1")>>),
                  Event("store_code", <<Attr("sender", "terra1sender"),
                                        Attr("code_id", "42")>>)>>)
    [] text = LogStore7 ->
         MsgLog(<<Event("store_code", <<Attr("code_id", "7")>>)>>)
    [] text = LogStoreNoId ->
         MsgLog(<<Event("store_code", <<Attr("sender", "terra1sender")>>)>>)
    [] text = LogInstPrimary ->
         MsgLog(<<Event("instantiate_contract",
                        <<Attr("_contract_address", "terra1def")>>)>>)
    [] text = LogInstFallback ->
         MsgLog(<<Event("instantiate",
                        <<Attr("_contract_address", "terra1abc")>>)>>)
    [] text = LogInstBoth ->
         MsgLog(<<Event("instantiate",
                        <<Attr("_contract_address", "terra1xyz")>>),
                  Event("instantiate_contract",
                        <<Attr("_contract_address", "terra1def")>>)>>)
    [] text = LogInstNoAddr ->
         MsgLog(<<Event("instantiate", <<Attr("code_id", "42")>>)>>)

\* parseInt(s, 10) of the code ids the logs carry; -1 stands for NaN, the
\* result for a text that starts with no digit.
parseInt(s) ==
  CASE s = "42" -> 42
    [] s = "7" -> 7
    [] s = "1" -> 1
    [] OTHER -> -1

(***************************************************************************)
(* Optional arguments: absent, or given with a value.                      *)
(***************************************************************************)
None == [given |-> FALSE]

Some(v) == [given |-> TRUE, v |-> v]

\* JavaScript truthiness of an optional number: undefined and 0 are falsy.
Truthy(opt) == opt.given /\ opt.v # 0

(***************************************************************************)
(* The deployer's options: its network, the build configuration, and the   *)
(* project directory the process runs in.                                  *)
(***************************************************************************)
Networks == {"testnet", "mainnet"}

\* this.network
network == "testnet"

\* The contract names a caller may pass; "ghost" has no build information.
ContractNames == {"vault", "my-token", "ghost"}

\* this.config.contracts: the contracts with build information.
ConfigContracts == {"vault", "my-token"}

\* this.config.contracts[contract].src, a relative path.
buildInfoSrc(contract) ==
  CASE contract = "vault" -> <<"vault">>
    [] contract = "my-token" -> <<"my-token">>

\* contract.replace(/-/g, "_")
ReplaceDashes(contract) ==
  CASE contract = "vault" -> "vault"
    [] contract = "my-token" -> "my_token"
    [] contract = "ghost" -> "ghost"

\* The bytecode file name, as the parts the code concatenates.
wasmByteCodeFilename(contract, arm64) ==
  <<ReplaceDashes(contract)>>
    \o (IF arm64 THEN <<"-arm64">> ELSE <<>>)
    \o <<".wasm">>

\* path.join(a, b) of two paths, each a sequence of segments.
PathJoin(a, b) == a \o b

\* The project directory the process starts in.
ProjectDir == <<>>

\* The directories that exist under the project directory.
Dirs == {<<>>, <<"vault">>, <<"my-token">>}

\* The bytecode artifacts the build has produced: my-token has no arm64 one.
Files ==
  {<<"vault", "artifacts", <<"vault", ".wasm">>>>,
   <<"vault", "artifacts", <<"vault", "-arm64", ".wasm">>>>,
   <<"my-token", "artifacts", <<"my_token", ".wasm">>>>}

existsSync(p) == p \in Files

\* readFileSync(p).toString("base64"): the encoding of the file's bytes.
wasmByteCode(p) == <<"base64", p>>

\* this.signer.key.accAddress
accAddress == "terra1sender"

(***************************************************************************)
(* The Reference Store: the in-memory snapshot and its serialized form.    *)
(***************************************************************************)
\* A record field that is not set (undefined).
Absent == "<undefined>"

EmptyRefs ==
  [n \in Networks |-> [c \in ContractNames |->
     [codeId |-> Absent, address |-> Absent]]]

getCodeId(r, n, c) == r[n][c].codeId

setCodeId(r, n, c, v) == [r EXCEPT ![n][c].codeId = v]

getAddress(r, n, c) == r[n][c].address

setAddress(r, n, c, v) == [r EXCEPT ![n][c].address = v]

\* The document saveRefs writes: one entry per value that is set.
Serialize(r) ==
  {<<n, c, "codeId", r[n][c].codeId>> : n \in Networks, c \in ContractNames}
  \cup
  {<<n, c, "address", r[n][c].address>> : n \in Networks, c \in ContractNames}

\* this.config.refs.base_path and this.config.refs.copy_refs_to
RefsBasePath == "refs.json"

RefsCopyTo == {"app/refs.json"}

\* saveRefs(base_path, copy_refs_to): the files after the save.
saveRefs(r, fs, base, copies) ==
  [p \in DOMAIN fs |->
     IF p = base \/ p \in copies
       THEN {e \in Serialize(r) : e[4] # Absent}
       ELSE fs[p]]

\* What a load of the document reports for one field.
Loaded(doc, n, c, field) ==
  IF \E e \in doc : e[1] = n /\ e[2] = c /\ e[3] = field
    THEN (CHOOSE e \in doc : e[1] = n /\ e[2] = c /\ e[3] = field)[4]
    ELSE Absent

(***************************************************************************)
(* The ledger client and the Block-Inclusion Waiter.                       *)
(***************************************************************************)
\* What this.signer.sequence() may report.
ChainSequences == {2, 3}

\* The sequence overrides a caller may pass in options.sequence.
SequenceOptions == {None, Some(0), Some(1)}

\* The migrateCodeId arguments a caller may pass.
MigrateOptions == {None, Some(0), Some(7)}

\* broadcastSync's answers: accepted into the pending pool, or rejected with
\* a non-zero code and the ledger's diagnostic.
BroadcastAccepted(c) == [hasCode |-> FALSE, txhash |-> ToString(c)]

BroadcastRejected(c) ==
  [hasCode |-> TRUE, txhash |-> ToString(c), code |-> 32,
   raw_log |-> "account sequence mismatch"]

BroadcastResults(c) == {BroadcastAccepted(c), BroadcastRejected(c)}

\* A thrown error as a call records it.
NoErr == [thrown |-> FALSE]

Err(class, message) == [thrown |-> TRUE, class |-> class, message |-> message]

\* What the Waiter found: the included transaction, or nothing.
NoRes == [found |-> FALSE]

TxInfo(raw) == [found |-> TRUE, raw_log |-> raw]

\* The outcomes of waitForInclusionInBlock(lcd, txhash): the included
\* transaction, a timeout, or an execution failure with the ledger's text.
\* A transaction the node rejected never enters a block.
WaiterOutcomes(bres) ==
  {[kind |-> "timeout",
    err |-> Err("InclusionTimeout",
                <<"Transaction ", bres.txhash, " not found in a block">>)]}
  \cup
  (IF bres.hasCode THEN {}
   ELSE {[kind |-> "failed",
          err |-> Err("ExecutionFailed", <<"Transaction failed: ", LogNotJson>>)]}
        \cup {[kind |-> "found", res |-> TxInfo(raw)] : raw \in RawLogs})

(***************************************************************************)
(* State.                                                                  *)
(***************************************************************************)
VARIABLES
  calls,    \* the storeCode/instantiate calls: position, locals, outcome
  refs,     \* this.refs: the in-memory reference snapshot
  files,    \* the reference documents on disk, by path
  cwd,      \* process.cwd()
  arm64     \* process.arch === "arm64"

vars == <<calls, refs, files, cwd, arm64>>

NoRet == [returned |-> FALSE]

Ret(v) == [returned |-> TRUE, value |-> v]

NoBroadcast == [hasCode |-> FALSE, txhash |-> ""]

\* A call that has not started.
IdleCall ==
  [pc |-> "idle", op |-> "none", contract |-> "", migrateCodeId |-> None,
   sequence |-> None, cwd |-> ProjectDir, codeId |-> Absent,
   manualSequence |-> None, msgs |-> <<>>, signedSeq |-> None,
   result |-> NoBroadcast, inclusion |-> "none", res |-> NoRes,
   ret |-> NoRet, err |-> NoErr, trace |-> <<>>]

Init ==
  /\ calls = [c \in CallIds |-> IdleCall]
  /\ refs = EmptyRefs
  /\ files = [p \in {RefsBasePath} \cup RefsCopyTo |-> {}]
  /\ cwd = ProjectDir
  /\ arm64 \in BOOLEAN

\* Call c is the next to be made: the ids number the calls in the order the
\* caller makes them.
NextCall(c) ==
  /\ calls[c].pc = "idle"
  /\ \A d \in DOMAIN calls : d < c => calls[d].pc # "idle"

\* The call ends by throwing e.
Fail(call, e) == [call EXCEPT !.pc = "done", !.err = e]

\* An await of the Waiter inside the try block: its error is caught and
\* thrown again as an unexpected error.
AwaitRejectedCaught(call, e) ==
  Fail(call, Err("Error", <<"Unexpcted Error: ", e.class, ": ">> \o e.message))

\* The awaited Waiter has thrown e: no try block surrounds the await, and
\* the call ends by throwing e itself.
AwaitRejected(call, e) == Fail(call, e)

\* The call records that it took a step.
Step(call, name) == [call EXCEPT !.trace = Append(@, name)]

\* `${e}` of a thrown exception e.
ErrorString(e) == <<e.class, ": ">> \o e.message

\* A reference value from a JavaScript value.
RefValue(v) == IF v.t = "string" THEN v.s ELSE Absent

(***************************************************************************)
(* storeCode(contract, migrateCodeId)                                      *)
(***************************************************************************)
\* The single message storeCode signs.
StoreCodeMsgs(migrateCodeId, wasm) ==
  <<IF Truthy(migrateCodeId)
      THEN [type |-> "MsgMigrateCode", sender |-> accAddress,
            code_id |-> migrateCodeId.v, wasm_byte_code |-> wasmByteCode(wasm)]
      ELSE [type |-> "MsgStoreCode", sender |-> accAddress,
            wasm_byte_code |-> wasmByteCode(wasm)]>>

\* The call up to its first await: the configuration lookup, the change of
\* directory, the read of the artifact, and the start of signing.
StoreCodeCall(c, contract, migrateCodeId) ==
  /\ NextCall(c)
  /\ LET call == [calls[c] EXCEPT !.op = "storeCode", !.contract = contract,
                                  !.migrateCodeId = migrateCodeId, !.cwd = cwd]
         contractFolder == PathJoin(cwd, buildInfoSrc(contract))
         wasm == PathJoin(contractFolder,
                          <<"artifacts", wasmByteCodeFilename(contract, arm64)>>)
     IN  IF contract \notin ConfigContracts
           THEN /\ calls' = [calls EXCEPT ![c] =
                      Fail(call, Err("Error",
                        <<"Contract ", contract,
                          " build information not found in config file.">>))]
                /\ cwd' = cwd
         ELSE IF contractFolder \notin Dirs
           THEN /\ calls' = [calls EXCEPT ![c] =
                      Fail(call, Err("Error",
                        <<"ENOENT: no such file or directory, chdir ",
                          ToString(contractFolder)>>))]
                /\ cwd' = cwd
         ELSE IF ~existsSync(wasm)
           THEN /\ calls' = [calls EXCEPT ![c] =
                      Fail(Step(call, "chdir"), Err("Error",
                        <<"WASM file \"", ToString(wasm),
                          "\" not found in artifacts folder">>))]
                /\ cwd' = contractFolder
         ELSE /\ calls' = [calls EXCEPT ![c] =
                    [Step(Step(call, "chdir"), "sign") EXCEPT
                       !.pc = "sc_sign",
                       !.msgs = StoreCodeMsgs(migrateCodeId, wasm)]]
              /\ cwd' = contractFolder
  /\ UNCHANGED <<refs, files, arm64>>

\* createAndSignTx has resolved: the transaction is broadcast.
StoreCodeSigned(c) ==
  /\ calls[c].pc = "sc_sign"
  /\ calls' = [calls EXCEPT ![c] =
       [Step(@, "broadcast") EXCEPT !.pc = "sc_broadcast"]]
  /\ UNCHANGED <<refs, files, cwd, arm64>>

\* A storeCode that does not look at the broadcast response.
StoreCodeBroadcastUnchecked(c, result) ==
  /\ calls[c].pc = "sc_broadcast"
  /\ calls' = [calls EXCEPT ![c] =
       [Step(@, "wait") EXCEPT !.pc = "sc_wait", !.result = result]]
  /\ UNCHANGED <<refs, files, cwd, arm64>>

\* A storeCode that signs and broadcasts once more after a rejected
\* broadcast.
StoreCodeBroadcastRetry(c, result) ==
  /\ calls[c].pc = "sc_broadcast"
  /\ calls' = [calls EXCEPT ![c] =
       IF result.hasCode /\ Len(calls[c].trace) < 5
         THEN [Step(@, "sign") EXCEPT !.pc = "sc_sign", !.result = result]
       ELSE IF result.hasCode
         THEN Fail([@ EXCEPT !.result = result],
                   Err("Error", <<"Error storing wasm file for ",
                                  calls[c].contract, ":\n", result.raw_log>>))
         ELSE [Step(@, "wait") EXCEPT !.pc = "sc_wait", !.result = result]]
  /\ UNCHANGED <<refs, files, cwd, arm64>>

\* broadcastSync has resolved with result: a response that carries a code
\* fails the call, any other starts the wait for inclusion.
StoreCodeBroadcast(c, result) ==
  /\ calls[c].pc = "sc_broadcast"
  /\ calls' = [calls EXCEPT ![c] =
       IF result.hasCode
         THEN Fail([@ EXCEPT !.result = result],
                   Err("Error", <<"Error storing wasm file for ",
                                  calls[c].contract, ":\n", result.raw_log>>))
         ELSE [Step(@, "wait") EXCEPT !.pc = "sc_wait", !.result = result]]
  /\ UNCHANGED <<refs, files, cwd, arm64>>

\* A storeCode that reads code_id from whichever event comes first.
SavedCodeIdAnyEvent(res) ==
  LET raw == IF res.found /\ res.raw_log # "" THEN res.raw_log ELSE ""
      events == GetProp(ElemAt(JSONparse(raw), 0), "events")
      attributes == GetProp(ElemAt(events, 0), "attributes")
  IN  GetProp(Find(attributes, "key", "code_id"), "value")

\* The code id storeCode reads from the included transaction's log.
SavedCodeId(res) ==
  LET raw == IF res.found /\ res.raw_log # "" THEN res.raw_log ELSE ""
      events == GetProp(ElemAt(JSONparse(raw), 0), "events")
      attributes == GetProp(Find(events, "type", "store_code"), "attributes")
  IN  GetProp(Find(attributes, "key", "code_id"), "value")

\* A storeCode that saves the references before it writes the code id.
StoreCodePersistSaveFirst(r, fs, contract, savedCodeId) ==
  [refs |-> setCodeId(r, network, contract, savedCodeId),
   files |-> saveRefs(r, fs, RefsBasePath, RefsCopyTo),
   steps |-> <<"saveRefs", "setCodeId">>]

\* A storeCode that saves a store holding its own record only.
StoreCodePersistOwnRecord(r, fs, contract, savedCodeId) ==
  [refs |-> setCodeId(r, network, contract, savedCodeId),
   files |-> saveRefs(setCodeId(EmptyRefs, network, contract, savedCodeId),
                      fs, RefsBasePath, RefsCopyTo),
   steps |-> <<"setCodeId", "saveRefs">>]

\* A storeCode that writes the code id only when none is recorded yet.
StoreCodePersistKeepFirst(r, fs, contract, savedCodeId) ==
  LET written == IF getCodeId(r, network, contract) = Absent
                   THEN setCodeId(r, network, contract, savedCodeId)
                   ELSE r
  IN  [refs |-> written,
       files |-> saveRefs(written, fs, RefsBasePath, RefsCopyTo),
       steps |-> <<"setCodeId", "saveRefs">>]

\* The end of storeCode's try block: the code id is written to the store,
\* then the store is saved.
StoreCodePersist(r, fs, contract, savedCodeId) ==
  LET written == setCodeId(r, network, contract, savedCodeId)
  IN  [refs |-> written,
       files |-> saveRefs(written, fs, RefsBasePath, RefsCopyTo),
       steps |-> <<"setCodeId", "saveRefs">>]

\* The error storeCode's catch block throws for a caught exception e.
StoreCodeCatch(e) ==
  IF e.class = "SyntaxError"
    THEN Err("Error",
             <<"Error parsing raw_log from store_code transaction: ">>
               \o e.message)
    ELSE Err("Error", <<"Unexpcted Error: ">> \o ErrorString(e))

\* waitForInclusionInBlock has settled with outcome: a rejection propagates;
\* otherwise the log is parsed, the directory restored, the code id recorded
\* and the references saved, or the catch block throws.
StoreCodeIncluded(c, outcome) ==
  /\ calls[c].pc = "sc_wait"
  /\ IF outcome.kind # "found"
       THEN /\ calls' = [calls EXCEPT ![c] =
                 AwaitRejected([@ EXCEPT !.inclusion = outcome.kind],
                               outcome.err)]
            /\ UNCHANGED <<refs, files, cwd>>
       ELSE LET call == Step([calls[c] EXCEPT !.inclusion = outcome.kind,
                                                 !.res = outcome.res], "parse")
                savedCodeId == SavedCodeId(outcome.res)
                saved == StoreCodePersist(refs, files, call.contract,
                                          RefValue(savedCodeId))
            IN  IF IsThrow(savedCodeId)
                  THEN /\ calls' = [calls EXCEPT ![c] =
                             Fail(call, StoreCodeCatch(savedCodeId))]
                       /\ UNCHANGED <<refs, files, cwd>>
                  ELSE /\ cwd' = call.cwd
                       /\ refs' = saved.refs
                       /\ files' = saved.files
                       /\ calls' = [calls EXCEPT ![c] =
                            [call EXCEPT
                               !.pc = "done",
                               !.trace = @ \o saved.steps,
                               !.ret = Ret(RefValue(savedCodeId))]]
  /\ UNCHANGED arm64

(***************************************************************************)
(* instantiate(contract, msg, options)                                     *)
(***************************************************************************)
\* The single message instantiate signs, for the code id read from the refs.
InstantiateMsgs(codeId) ==
  <<[type |-> "MsgInstantiateContract", sender |-> accAddress,
     code_id |-> parseInt(codeId), label |-> "Instantiate"]>>

\* The call signs msgs with the sequence number manualSequence.
InstantiateSign(call, manualSequence) ==
  [Step(call, "sign") EXCEPT
     !.pc = "in_sign",
     !.manualSequence = Some(manualSequence),
     !.msgs = InstantiateMsgs(call.codeId),
     !.signedSeq = Some(manualSequence)]

\* An instantiate that looks for the code id only after asking for the
\* signer's sequence.
InstantiateCallLateCheck(c, contract, sequence) ==
  /\ NextCall(c)
  /\ LET codeId == getCodeId(refs, network, contract)
         call == [calls[c] EXCEPT !.op = "instantiate", !.contract = contract,
                                  !.sequence = sequence, !.cwd = cwd,
                                  !.codeId = codeId]
     IN  calls' = [calls EXCEPT ![c] =
           IF Truthy(sequence) /\ codeId # Absent
             THEN InstantiateSign(call, sequence.v)
           ELSE IF codeId = Absent
             THEN Fail(Step(call, "sequence"), Err("Error",
                    <<"Contract ", contract, " code id not found in refs.">>))
           ELSE [Step(call, "sequence") EXCEPT !.pc = "in_seq"]]
  /\ UNCHANGED <<refs, files, cwd, arm64>>

\* An instantiate that does not look whether a code id is recorded.
InstantiateCallUnchecked(c, contract, sequence) ==
  /\ NextCall(c)
  /\ LET codeId == getCodeId(refs, network, contract)
         call == [calls[c] EXCEPT !.op = "instantiate", !.contract = contract,
                                  !.sequence = sequence, !.cwd = cwd,
                                  !.codeId = codeId]
     IN  calls' = [calls EXCEPT ![c] =
           IF Truthy(sequence)
             THEN InstantiateSign(call, sequence.v)
             ELSE [Step(call, "sequence") EXCEPT !.pc = "in_seq"]]
  /\ UNCHANGED <<refs, files, cwd, arm64>>

\* The call up to its first await: the code id lookup, then either the query
\* of the signer's sequence or, with options.sequence, the start of signing.
InstantiateCall(c, contract, sequence) ==
  /\ NextCall(c)
  /\ LET codeId == getCodeId(refs, network, contract)
         call == [calls[c] EXCEPT !.op = "instantiate", !.contract = contract,
                                  !.sequence = sequence, !.cwd = cwd,
                                  !.codeId = codeId]
     IN  calls' = [calls EXCEPT ![c] =
           IF codeId = Absent \/ codeId = ""
             THEN Fail(call, Err("Error",
                    <<"Contract ", contract, " code id not found in refs.">>))
           ELSE IF Truthy(sequence)
             THEN InstantiateSign(call, sequence.v)
           ELSE [Step(call, "sequence") EXCEPT !.pc = "in_seq"]]
  /\ UNCHANGED <<refs, files, cwd, arm64>>

\* this.signer.sequence() has resolved with the on-chain sequence.
InstantiateSequence(c, onChain) ==
  /\ calls[c].pc = "in_seq"
  /\ calls' = [calls EXCEPT ![c] = InstantiateSign(@, onChain)]
  /\ UNCHANGED <<refs, files, cwd, arm64>>

\* createAndSignTx has resolved: the transaction is broadcast.
InstantiateSigned(c) ==
  /\ calls[c].pc = "in_sign"
  /\ calls' = [calls EXCEPT ![c] =
       [Step(@, "broadcast") EXCEPT !.pc = "in_broadcast"]]
  /\ UNCHANGED <<refs, files, cwd, arm64>>

\* broadcastSync has resolved with result: the wait for inclusion starts on
\* result.txhash, whatever the response carries.
InstantiateBroadcast(c, result) ==
  /\ calls[c].pc = "in_broadcast"
  /\ calls' = [calls EXCEPT ![c] =
       [Step(@, "wait") EXCEPT !.pc = "in_wait", !.result = result]]
  /\ UNCHANGED <<refs, files, cwd, arm64>>

\* JSON.parse(res!.raw_log)
InstantiateLog(res) ==
  IF res.found THEN JSONparse(res.raw_log)
  ELSE Throw("TypeError",
             <<"Cannot read properties of undefined (reading 'raw_log')">>)

\* The error instantiate's catch block throws for a caught exception e.
InstantiateCatch(e, res, contract) ==
  IF e.class = "SyntaxError" /\ res.found
    THEN Err("Error", <<"Error instantiating ", contract, ":\n", res.raw_log>>)
    ELSE Err("Error", <<"Unexpcted Error: ">> \o ErrorString(e))

\* An instantiate that reads the address with optional chaining: a missing
\* event or attribute gives undefined instead of an exception.
ContractAddressOptional(log) ==
  LET Opt(v, k) == IF v.t \in {"undefined", "null"} THEN Undefined
                   ELSE GetProp(v, k)
      OptFind(v, k, s) == IF v.t \in {"undefined", "null"} THEN Undefined
                          ELSE Find(v, k, s)
      events == Opt(ElemAt(log, 0), "events")
      primary == OptFind(events, "type", "instantiate_contract")
      event == IF IsThrow(primary) \/ primary.t \notin {"undefined", "null"}
                 THEN primary
                 ELSE OptFind(events, "type", "instantiate")
  IN  Opt(OptFind(Opt(event, "attributes"), "key", "_contract_address"),
          "value")

\* An instantiate that tries the event type instantiate before
\* instantiate_contract.
ContractAddressFallbackFirst(log) ==
  LET events == GetProp(ElemAt(log, 0), "events")
      primary == Find(events, "type", "instantiate")
      event == IF IsThrow(primary) \/ primary.t \notin {"undefined", "null"}
                 THEN primary
                 ELSE Find(events, "type", "instantiate_contract")
  IN  GetProp(Find(GetProp(event, "attributes"), "key", "_contract_address"),
              "value")

\* The address instantiate reads from the parsed log: the first event of
\* type instantiate_contract, else the first of type instantiate.
ContractAddress(log) ==
  LET events == GetProp(ElemAt(log, 0), "events")
      primary == Find(events, "type", "instantiate_contract")
      event == IF IsThrow(primary) \/ primary.t \notin {"undefined", "null"}
                 THEN primary
                 ELSE Find(events, "type", "instantiate")
  IN  GetProp(Find(GetProp(event, "attributes"), "key", "_contract_address"),
              "value")

\* An instantiate that replaces the contract's whole record by the address.
InstantiatePersistWholeRecord(r, fs, contract, contractAddress) ==
  LET written == [r EXCEPT ![network][contract] =
                    [codeId |-> Absent, address |-> contractAddress]]
  IN  [refs |-> written,
       files |-> saveRefs(written, fs, RefsBasePath, RefsCopyTo),
       steps |-> <<"setAddress", "saveRefs">>]

\* The end of instantiate: the address is written to the store, then the
\* store is saved.
InstantiatePersist(r, fs, contract, contractAddress) ==
  LET written == setAddress(r, network, contract, contractAddress)
  IN  [refs |-> written,
       files |-> saveRefs(written, fs, RefsBasePath, RefsCopyTo),
       steps |-> <<"setAddress", "saveRefs">>]

\* waitForInclusionInBlock has settled with outcome: a rejection propagates;
\* otherwise the log is parsed (the catch block throws for a parse failure),
\* the address is read (an exception here is not caught), recorded, and the
\* references are saved.
InstantiateIncluded(c, outcome) ==
  /\ calls[c].pc = "in_wait"
  /\ IF outcome.kind # "found"
       THEN /\ calls' = [calls EXCEPT ![c] =
                 AwaitRejected([@ EXCEPT !.inclusion = outcome.kind],
                               outcome.err)]
            /\ UNCHANGED <<refs, files>>
       ELSE LET call == Step([calls[c] EXCEPT !.inclusion = outcome.kind,
                                                 !.res = outcome.res], "parse")
                log == InstantiateLog(outcome.res)
                contractAddress == ContractAddress(log)
                saved == InstantiatePersist(refs, files, call.contract,
                                            RefValue(contractAddress))
            IN  IF IsThrow(log)
                  THEN /\ calls' = [calls EXCEPT ![c] =
                             Fail(call, InstantiateCatch(log, outcome.res,
                                                         call.contract))]
                       /\ UNCHANGED <<refs, files>>
                ELSE IF IsThrow(contractAddress)
                  THEN /\ calls' = [calls EXCEPT ![c] =
                             Fail(call, Err(contractAddress.class,
                                            contractAddress.message))]
                       /\ UNCHANGED <<refs, files>>
                ELSE /\ refs' = saved.refs
                     /\ files' = saved.files
                     /\ calls' = [calls EXCEPT ![c] =
                          [call EXCEPT
                             !.pc = "done",
                             !.trace = @ \o saved.steps,
                             !.ret = Ret([address |-> RefValue(contractAddress),
                                          raw_log |-> outcome.res.raw_log])]]
  /\ UNCHANGED <<cwd, arm64>>

(***************************************************************************)
(* The specification: callers start calls at any time, and every pending   *)
(* await may resolve in any order.                                         *)
(***************************************************************************)
Next ==
  \/ \E c \in DOMAIN calls, contract \in ContractNames, m \in MigrateOptions :
       StoreCodeCall(c, contract, m)
  \/ \E c \in DOMAIN calls : StoreCodeSigned(c)
  \/ \E c \in DOMAIN calls : \E result \in BroadcastResults(c) :
       StoreCodeBroadcast(c, result)
  \/ \E c \in DOMAIN calls : \E outcome \in WaiterOutcomes(calls[c].result) :
       StoreCodeIncluded(c, outcome)
  \/ \E c \in DOMAIN calls, contract \in ContractNames, q \in SequenceOptions :
       InstantiateCall(c, contract, q)
  \/ \E c \in DOMAIN calls, onChain \in ChainSequences :
       InstantiateSequence(c, onChain)
  \/ \E c \in DOMAIN calls : InstantiateSigned(c)
  \/ \E c \in DOMAIN calls : \E result \in BroadcastResults(c) :
       InstantiateBroadcast(c, result)
  \/ \E c \in DOMAIN calls : \E outcome \in WaiterOutcomes(calls[c].result) :
       InstantiateIncluded(c, outcome)

Spec == Init /\ [][Next]_vars

(***************************************************************************)
(* A longer run of calls against a ledger that accepts every broadcast and *)
(* includes every transaction: one call more than Spec makes, so that a     *)
(* code id is stored twice before an instantiate, and a storeCode and an    *)
(* instantiate of different contracts are in flight together.               *)
(***************************************************************************)
WideCallIds == 1..(MaxCalls + 1)

WideContracts == {"vault", "my-token"}

WideSequenceOptions == {None, Some(1)}

WideRawLogs == {LogStore42, LogStore7, LogInstFallback}

\* The store the deployer is constructed with: empty, or loaded from a file
\* that holds the record of an earlier deployment to the other network.
WideInitialRefs ==
  {EmptyRefs,
   setAddress(setCodeId(EmptyRefs, "mainnet", "vault", "1"),
              "mainnet", "vault", "terra1old")}

InitWide ==
  /\ calls = [c \in WideCallIds |-> IdleCall]
  /\ refs \in WideInitialRefs
  /\ files = saveRefs(refs, [p \in {RefsBasePath} \cup RefsCopyTo |-> {}],
                      RefsBasePath, RefsCopyTo)
  /\ cwd = ProjectDir
  /\ arm64 = FALSE

NextWide ==
  \/ \E c \in DOMAIN calls, contract \in WideContracts :
       StoreCodeCall(c, contract, None)
  \/ \E c \in DOMAIN calls : StoreCodeSigned(c)
  \/ \E c \in DOMAIN calls : StoreCodeBroadcast(c, BroadcastAccepted(c))
  \/ \E c \in DOMAIN calls, raw \in WideRawLogs :
       StoreCodeIncluded(c, [kind |-> "found", res |-> TxInfo(raw)])
  \/ \E c \in DOMAIN calls, contract \in WideContracts,
        q \in WideSequenceOptions :
       InstantiateCall(c, contract, q)
  \/ \E c \in DOMAIN calls, onChain \in ChainSequences :
       InstantiateSequence(c, onChain)
  \/ \E c \in DOMAIN calls : InstantiateSigned(c)
  \/ \E c \in DOMAIN calls : InstantiateBroadcast(c, BroadcastAccepted(c))
  \/ \E c \in DOMAIN calls, raw \in WideRawLogs :
       InstantiateIncluded(c, [kind |-> "found", res |-> TxInfo(raw)])

SpecWide == InitWide /\ [][NextWide]_vars

(***************************************************************************)
(* Vocabulary of the properties.                                           *)
(***************************************************************************)
Range(seq) == {seq[i] : i \in DOMAIN seq}

\* The message of error e carries text verbatim.
Carries(e, text) == e.thrown /\ text \in Range(e.message)

\* How often a call took the step name.
Count(trace, name) == Cardinality({i \in DOMAIN trace : trace[i] = name})

\* The step name was taken, and before any step later.
Before(trace, name, later) ==
  \E i \in DOMAIN trace :
    /\ trace[i] = name
    /\ \A j \in DOMAIN trace : trace[j] = later => i < j

\* The events of the first message of a raw log; none if the text is not a
\* list of messages with events.
LogEvents(text) ==
  LET log == JSONparse(text)
  IN  IF IsThrow(log) \/ log.t # "array" \/ log.items = <<>> THEN {}
      ELSE Range(log.items[1].fields.events.items)

\* The values the raw log gives attribute key in its events of a type.
AttrValues(text, type, key) ==
  {a.fields.value.s :
     a \in {b \in UNION {Range(e.fields.attributes.items) :
                           e \in {ev \in LogEvents(text) :
                                    ev.fields.type.s = type}} :
              b.fields.key.s = key}}

\* The raw log is valid structured data.
WellFormed(text) == ~IsThrow(JSONparse(text))

\* The raw log lacks what storeCode, or instantiate, reads from it.
LacksCodeId(text) == AttrValues(text, "store_code", "code_id") = {}

LacksAddress(text) ==
  /\ AttrValues(text, "instantiate_contract", "_contract_address") = {}
  /\ AttrValues(text, "instantiate", "_contract_address") = {}

Lacks(op, text) ==
  IF op = "storeCode" THEN LacksCodeId(text) ELSE LacksAddress(text)

\* Call c leaves the position pc in this step.
Leaves(c, pc) == calls[c].pc = pc /\ calls'[c].pc # pc

\* Call c receives, in this step, an included transaction from the Waiter.
Included(c) ==
  /\ calls[c].pc \in {"sc_wait", "in_wait"}
  /\ calls'[c].pc = "done"
  /\ calls'[c].res.found

\* The reference documents on disk all report value for the field.
Persisted(fs, n, contract, field, value) ==
  \A p \in {RefsBasePath} \cup RefsCopyTo :
    Loaded(fs[p], n, contract, field) = value

\* A call that has finished.
Done(c) == calls[c].pc = "done"

(***************************************************************************)
(* Properties.                                                             *)
(***************************************************************************)
\* C1: when storeCode's broadcast response carries an error code, the call
\* fails at once with an error that contains the response's raw_log, it never
\* invokes the Waiter, and the references in memory and on disk are
\* unchanged.
C1_StoreCodeRejectedFailsFast ==
  [][\A c \in DOMAIN calls :
       (Leaves(c, "sc_broadcast") /\ calls'[c].result.hasCode) =>
         /\ calls'[c].pc = "done"
         /\ ~calls'[c].ret.returned
         /\ Carries(calls'[c].err, calls'[c].result.raw_log)
         /\ Count(calls'[c].trace, "wait") = 0
         /\ refs' = refs
         /\ files' = files]_vars

C1_Witness ==
  \E c \in DOMAIN calls :
    Done(c) /\ calls[c].op = "storeCode" /\ calls[c].result.hasCode

\* C2: when instantiate's broadcast response carries an error code, the call
\* fails with an error that contains the response's raw_log, without waiting
\* for inclusion and without writing an address.
C2_InstantiateRejectedFailsFast ==
  \A c \in DOMAIN calls :
    (calls[c].op = "instantiate" /\ calls[c].result.hasCode) =>
      /\ Done(c)
      /\ Carries(calls[c].err, calls[c].result.raw_log)
      /\ Count(calls[c].trace, "wait") = 0
      /\ Count(calls[c].trace, "setAddress") = 0

\* C3: instantiate of a contract with no code id recorded fails with the
\* code-id-not-found error before any sequence query, signing or broadcast,
\* and leaves the references in memory and on disk unchanged.
C3_InstantiateWithoutCodeId ==
  [][\A c \in DOMAIN calls :
       (/\ Leaves(c, "idle")
        /\ calls'[c].op = "instantiate"
        /\ getCodeId(refs, network, calls'[c].contract) = Absent) =>
         /\ calls'[c].pc = "done"
         /\ calls'[c].err =
              Err("Error", <<"Contract ", calls'[c].contract,
                             " code id not found in refs.">>)
         /\ calls'[c].trace = <<>>
         /\ refs' = refs
         /\ files' = files]_vars

C3_Witness ==
  \E c \in DOMAIN calls :
    /\ Done(c)
    /\ calls[c].op = "instantiate"
    /\ calls[c].codeId = Absent
    /\ calls[c].err.thrown

\* C4: when storeCode returns, the value it returns, the code id the store
\* holds for (network, contract) and the one every saved document holds are
\* all the code_id attribute of the store_code event of the included log.
C4_StoreCodeRecordsLogValue ==
  [][\A c \in DOMAIN calls :
       (Leaves(c, "sc_wait") /\ calls'[c].ret.returned) =>
         /\ AttrValues(calls'[c].res.raw_log, "store_code", "code_id")
              = {calls'[c].ret.value}
         /\ getCodeId(refs', network, calls'[c].contract) = calls'[c].ret.value
         /\ Persisted(files', network, calls'[c].contract, "codeId",
                      calls'[c].ret.value)]_vars

C4_Witness ==
  \E c \in DOMAIN calls :
    /\ Done(c)
    /\ calls[c].op = "storeCode"
    /\ calls[c].ret.returned
    /\ calls[c].res.raw_log = LogStore42

\* C5: a storeCode call that returns has saved the references exactly once,
\* after it wrote the code id and before it returned: the saved documents
\* hold the code id just written.
C5_StoreCodePersistsOnce ==
  [][\A c \in DOMAIN calls :
       (Leaves(c, "sc_wait") /\ calls'[c].ret.returned) =>
         /\ Count(calls'[c].trace, "saveRefs") = 1
         /\ Count(calls'[c].trace, "setCodeId") = 1
         /\ Before(calls'[c].trace, "setCodeId", "saveRefs")
         /\ calls'[c].trace[Len(calls'[c].trace)] = "saveRefs"
         /\ \A p \in {RefsBasePath} \cup RefsCopyTo :
              files'[p] = {e \in Serialize(refs') : e[4] # Absent}
         /\ getCodeId(refs', network, calls'[c].contract) # Absent]_vars

C5_Witness ==
  \E c \in DOMAIN calls :
    /\ Done(c)
    /\ calls[c].op = "storeCode"
    /\ calls[c].ret.returned
    /\ Count(calls[c].trace, "saveRefs") = 1

\* The raw log carries no event of the type.
NoEvent(text, type) == \A ev \in LogEvents(text) : ev.fields.type.s # type

\* C6: a call whose included transaction has a log that is malformed or
\* lacks the expected event or attribute throws, returns no value, and leaves
\* the references in memory and on disk unchanged.
C6_BadLogIsNeverSuccess ==
  [][\A c \in DOMAIN calls :
       (/\ Included(c)
        /\ \/ ~WellFormed(calls'[c].res.raw_log)
           \/ Lacks(calls'[c].op, calls'[c].res.raw_log)) =>
         /\ calls'[c].err.thrown
         /\ ~calls'[c].ret.returned
         /\ refs' = refs
         /\ files' = files]_vars

C6_Witness ==
  \E c \in DOMAIN calls :
    /\ Done(c)
    /\ calls[c].op = "instantiate"
    /\ calls[c].res.found
    /\ WellFormed(calls[c].res.raw_log)
    /\ LacksAddress(calls[c].res.raw_log)
    /\ calls[c].err.thrown

\* C7: the error of a call that failed to parse its log (the log malformed,
\* or lacking the expected event or attribute) carries the log's raw_log
\* verbatim.
C7_ParseErrorCarriesRawLog ==
  \A c \in DOMAIN calls :
    (/\ Done(c)
     /\ calls[c].res.found
     /\ \/ ~WellFormed(calls[c].res.raw_log)
        \/ Lacks(calls[c].op, calls[c].res.raw_log)) =>
      Carries(calls[c].err, calls[c].res.raw_log)

\* The kind of an error: its class and the leading text of its message.
ErrorKind(e) == <<e.class, e.message[1]>>

\* The error a call of the operation throws for a log that is not JSON.
NotJsonError(op, contract) ==
  IF op = "storeCode" THEN StoreCodeCatch(JSONparse(LogNotJson))
  ELSE InstantiateCatch(JSONparse(LogNotJson), TxInfo(LogNotJson), contract)

\* C8: a well-formed log that lacks the expected event or attribute fails
\* the call with an error that is not a type-confusion failure and whose kind
\* differs from that of the error for a log that is not valid structured
\* data.
C8_MissingEventIsParseError ==
  \A c \in DOMAIN calls :
    (/\ Done(c)
     /\ calls[c].res.found
     /\ WellFormed(calls[c].res.raw_log)
     /\ Lacks(calls[c].op, calls[c].res.raw_log)) =>
      /\ calls[c].err.thrown
      /\ calls[c].err.class # "TypeError"
      /\ ErrorKind(calls[c].err)
           # ErrorKind(NotJsonError(calls[c].op, calls[c].contract))

\* C9: an instantiate given a sequence override (0 included) never queries
\* the on-chain sequence and signs with exactly the override; one given no
\* override queries the on-chain sequence before it signs.
C9_SequenceOverrideWins ==
  \A c \in DOMAIN calls :
    calls[c].op = "instantiate" =>
      IF calls[c].sequence.given
        THEN /\ Count(calls[c].trace, "sequence") = 0
             /\ calls[c].signedSeq.given =>
                  calls[c].signedSeq.v = calls[c].sequence.v
        ELSE calls[c].signedSeq.given =>
               Count(calls[c].trace, "sequence") = 1

\* C10: the address instantiate returns is the _contract_address of the
\* instantiate_contract event when the log has one, and otherwise that of
\* the instantiate event.
C10_AddressFromFirstCandidate ==
  \A c \in DOMAIN calls :
    (calls[c].op = "instantiate" /\ calls[c].ret.returned) =>
      LET raw == calls[c].res.raw_log
          type == IF NoEvent(raw, "instantiate_contract")
                    THEN "instantiate" ELSE "instantiate_contract"
      IN  AttrValues(raw, type, "_contract_address")
            = {calls[c].ret.value.address}

C10_Witness ==
  \E c \in DOMAIN calls :
    /\ calls[c].op = "instantiate"
    /\ calls[c].ret.returned
    /\ calls[c].res.raw_log = LogInstBoth
    /\ calls[c].ret.value.address = "terra1def"

\* The fallback alone: a log whose only candidate event is instantiate.
C10_FallbackReached ==
  \E c \in DOMAIN calls :
    /\ calls[c].op = "instantiate"
    /\ calls[c].ret.returned
    /\ calls[c].res.raw_log = LogInstFallback
    /\ calls[c].ret.value.address = "terra1abc"

\* C11: a storeCode call signs exactly one message: a migrate-code message
\* under migrateCodeId whenever the caller gave a migrateCodeId (0 included),
\* and a store-new-code message only when the caller gave none.
C11_MigrateWhenProvided ==
  \A c \in DOMAIN calls :
    (calls[c].op = "storeCode" /\ Count(calls[c].trace, "sign") > 0) =>
      /\ Len(calls[c].msgs) = 1
      /\ IF calls[c].migrateCodeId.given
           THEN /\ calls[c].msgs[1].type = "MsgMigrateCode"
                /\ calls[c].msgs[1].code_id = calls[c].migrateCodeId.v
           ELSE calls[c].msgs[1].type = "MsgStoreCode"

\* The storeCode calls of a contract that have returned a code id.
StoredBy(contract) ==
  {d \in DOMAIN calls :
     /\ calls[d].op = "storeCode"
     /\ calls[d].contract = contract
     /\ calls[d].ret.returned}

\* The latest of a non-empty set of calls.
Latest(ds) == CHOOSE d \in ds : \A e \in ds : e <= d

\* C12: storeCode calls of a contract return in the order they were made; an
\* instantiate made after some have returned reads the code id the latest of
\* them returned, builds its message with that code id's numeric value, and,
\* when it returns, its address is the one the store and every saved
\* document hold for (network, contract).
C12_InstantiateUsesLatestCodeId ==
  [][\A c \in DOMAIN calls :
       /\ (Leaves(c, "sc_wait") /\ calls'[c].ret.returned) =>
            \A d \in StoredBy(calls'[c].contract) : d < c
       /\ (/\ Leaves(c, "idle")
           /\ calls'[c].op = "instantiate"
           /\ StoredBy(calls'[c].contract) # {}) =>
            calls'[c].codeId =
              calls[Latest(StoredBy(calls'[c].contract))].ret.value
       /\ (calls'[c].op = "instantiate" /\ calls'[c].msgs # <<>>) =>
            /\ Len(calls'[c].msgs) = 1
            /\ calls'[c].msgs[1].code_id = parseInt(calls'[c].codeId)
       /\ (Leaves(c, "in_wait") /\ calls'[c].ret.returned) =>
            /\ getAddress(refs', network, calls'[c].contract)
                 = calls'[c].ret.value.address
            /\ Persisted(files', network, calls'[c].contract, "address",
                         calls'[c].ret.value.address)]_vars

C12_Witness ==
  \E a, b, c \in DOMAIN calls :
    /\ a < b /\ b < c
    /\ {a, b} \subseteq StoredBy(calls[c].contract)
    /\ calls[a].ret.value = "42"
    /\ calls[b].ret.value = "7"
    /\ calls[c].op = "instantiate"
    /\ calls[c].ret.returned
    /\ calls[c].msgs[1].code_id = 7
    /\ getAddress(refs, network, calls[c].contract) = "terra1abc"

Pipeline == <<"sign", "broadcast", "wait", "parse", "saveRefs">>

IsPipelineStep(name) == name \in Range(Pipeline)

\* The pipeline steps a call has taken, in the order it took them.
StepsTaken(c) == SelectSeq(calls[c].trace, IsPipelineStep)

\* C14: the steps a call has taken are sign, broadcast, wait, parse, persist
\* in that order, each at most once and none without the one before; and a
\* step that failed (a rejected broadcast, a Waiter that threw, a parse that
\* threw) is followed by no later step.
C14_StepsInOrder ==
  \A c \in DOMAIN calls :
    /\ Len(StepsTaken(c)) <= Len(Pipeline)
    /\ StepsTaken(c) = SubSeq(Pipeline, 1, Len(StepsTaken(c)))
    /\ calls[c].result.hasCode => Count(calls[c].trace, "wait") = 0
    /\ calls[c].inclusion \in {"timeout", "failed"} =>
         Count(calls[c].trace, "parse") = 0
    /\ (calls[c].res.found /\ calls[c].err.thrown) =>
         Count(calls[c].trace, "saveRefs") = 0

\* C15: no call retries: whatever happens to it, a call signs at most one
\* transaction, of one message, and broadcasts at most once.
C15_NoRetry ==
  \A c \in DOMAIN calls :
    /\ Count(calls[c].trace, "sign") <= 1
    /\ Count(calls[c].trace, "broadcast") <= 1
    /\ Count(calls[c].trace, "sequence") <= 1
    /\ Len(calls[c].msgs) <= 1

\* A storeCode has succeeded, and an instantiate whose broadcast was
\* rejected has ended in failure, after one signature and one broadcast.
C15_Witness ==
  \E c, d \in DOMAIN calls :
    /\ calls[c].op = "storeCode" /\ calls[c].ret.returned
    /\ calls[d].op = "instantiate" /\ Done(d) /\ calls[d].err.thrown
    /\ calls[d].result.hasCode
    /\ Count(calls[d].trace, "sign") = 1
    /\ Count(calls[d].trace, "broadcast") = 1

\* The contracts' records in memory and in each reference file, as a load
\* of the file reports them.
Stores ==
  {refs} \cup
  {[n \in Networks |-> [k \in ContractNames |->
      [codeId |-> Loaded(files[p], n, k, "codeId"),
       address |-> Loaded(files[p], n, k, "address")]]] : p \in DOMAIN files}

\* C16: the store starts empty (or holding complete records), and after any
\* calls, successful or failed, whichever contract has an address recorded,
\* in memory or in a reference file, has a code id recorded there too.
C16_AddressImpliesCodeId ==
  \A s \in Stores : \A n \in Networks : \A k \in ContractNames :
    getAddress(s, n, k) # Absent => getCodeId(s, n, k) # Absent

\* An address is recorded in memory and in the file, a call has failed, and
\* some contract has no record at all.
C16_Witness ==
  /\ \E k \in ContractNames :
       /\ getAddress(refs, network, k) # Absent
       /\ Loaded(files[RefsBasePath], network, k, "address") # Absent
  /\ \E k \in ContractNames : getCodeId(refs, network, k) = Absent
  /\ \E c \in DOMAIN calls : calls[c].err.thrown

\* What a load of reference file p reports for contract k on network n.
FileRecord(fs, p, n, k) ==
  [codeId |-> Loaded(fs[p], n, k, "codeId"),
   address |-> Loaded(fs[p], n, k, "address")]

\* Field f of contract k on network n is the same after the step as before
\* it, in memory and in every reference file.
FieldKept(n, k, f) ==
  /\ refs'[n][k][f] = refs[n][k][f]
  /\ \A p \in DOMAIN files :
       FileRecord(files', p, n, k)[f] = FileRecord(files, p, n, k)[f]

\* C17: a step of a call for contract A leaves every record of another
\* contract or another network as it was, in memory and in the saved files;
\* a storeCode step leaves A's address, and an instantiate step leaves A's
\* code id, as it was.
C17_Frame ==
  [][\A c \in DOMAIN calls :
       calls'[c] # calls[c] =>
         \A n \in Networks : \A k \in ContractNames :
           /\ (n # network \/ k # calls'[c].contract) =>
                FieldKept(n, k, "codeId") /\ FieldKept(n, k, "address")
           /\ calls'[c].op = "storeCode" => FieldKept(n, k, "address")
           /\ calls'[c].op = "instantiate" => FieldKept(n, k, "codeId")]_vars

\* Two contracts have a code id and one of them an address, in memory and
\* in the file, next to the record of the other network: each was written
\* while the other records were present.
C17_Witness ==
  /\ FileRecord(files, RefsBasePath, "mainnet", "vault") =
       [codeId |-> "1", address |-> "terra1old"]
  /\ \A k \in WideContracts :
       /\ getCodeId(refs, network, k) # Absent
       /\ FileRecord(files, RefsBasePath, network, k).codeId # Absent
  /\ \E k \in WideContracts :
       /\ getAddress(refs, network, k) # Absent
       /\ FileRecord(files, RefsBasePath, network, k).address # Absent

\* The field a successful call records, and the value it recorded.
RecordedField(c) == IF calls[c].op = "storeCode" THEN "codeId" ELSE "address"

RecordedValue(c) ==
  IF calls[c].op = "storeCode" THEN calls[c].ret.value
                               ELSE calls[c].ret.value.address

\* No other successful call recorded the same field of the same contract.
OnlyWriter(c) ==
  \A d \in DOMAIN calls \ {c} :
    ~(/\ calls[d].ret.returned
      /\ calls[d].op = calls[c].op
      /\ calls[d].contract = calls[c].contract)

\* The record of every successful call is in memory and in every file.
NoLostUpdate ==
  \A c \in DOMAIN calls :
    (calls[c].ret.returned /\ OnlyWriter(c)) =>
      /\ refs[network][calls[c].contract][RecordedField(c)] = RecordedValue(c)
      /\ Persisted(files, network, calls[c].contract, RecordedField(c),
                   RecordedValue(c))

\* A step that writes the store or a file is the last step of one call, and
\* after it every file holds the whole of the store in memory.
WriteAndSaveTogether ==
  (refs' # refs \/ files' # files) =>
    /\ \E c \in DOMAIN calls :
         /\ Included(c) /\ calls'[c].ret.returned
         /\ \A d \in DOMAIN calls \ {c} : calls'[d] = calls[d]
    /\ files' = saveRefs(refs', files, RefsBasePath, RefsCopyTo)

\* C18: with calls for different contracts interleaved, a call's write of
\* its record and its save of the store happen in one step that no other
\* call's write comes between, and no record of a successful call is lost:
\* it is in memory and in every saved file from then on.
C18_NoLostUpdate == []NoLostUpdate /\ [][WriteAndSaveTogether]_vars

\* An instantiate has returned and its address is saved while a storeCode
\* of another contract, called before it, still waits for inclusion.
C18_Witness ==
  \E c, d \in DOMAIN calls :
    /\ c < d
    /\ calls[c].contract # calls[d].contract
    /\ calls[c].op = "storeCode" /\ calls[c].pc = "sc_wait"
    /\ calls[d].op = "instantiate" /\ calls[d].ret.returned
    /\ Persisted(files, network, calls[d].contract, "address",
                 calls[d].ret.value.address)
    /\ calls[d].ret.value.address # Absent

\* C19: when a storeCode call has ended, in whichever way, and no other call
\* was made, the working directory is the one the call started in.
C19_StoreCodeRestoresCwd ==
  \A c \in DOMAIN calls :
    (/\ calls[c].op = "storeCode"
     /\ Done(c)
     /\ \A d \in DOMAIN calls \ {c} : calls[d].pc = "idle") =>
      cwd = calls[c].cwd

\* The artifact of a contract, at the path derived from the project
\* directory, the contract's configured source folder and its name.
OwnArtifact(contract) ==
  PathJoin(PathJoin(ProjectDir, buildInfoSrc(contract)),
           <<"artifacts", wasmByteCodeFilename(contract, arm64)>>)

\* C20: a storeCode call for a configured contract whose artifact exists,
\* made while no earlier call has failed, reads that artifact into its one
\* message, whichever storeCode calls for other contracts are in flight.
C20_ParallelStoreCodeOwnArtifact ==
  \A c \in DOMAIN calls :
    (/\ calls[c].op = "storeCode"
     /\ calls[c].contract \in ConfigContracts
     /\ existsSync(OwnArtifact(calls[c].contract))
     /\ \A d \in DOMAIN calls \ {c} :
          calls[d].contract # calls[c].contract
     /\ \A d \in DOMAIN calls : d < c => ~calls[d].err.thrown) =>
      /\ ~calls[c].err.thrown \/ Count(calls[c].trace, "sign") = 1
      /\ Len(calls[c].msgs) = 1
      /\ calls[c].msgs[1].wasm_byte_code
           = wasmByteCode(OwnArtifact(calls[c].contract))
====
